---- MODULE Spec2Model ----
(***************************************************************************)
(* Model of the BNO055 IMU driver (src/bno055.py): construction            *)
(* (initialize_imu, calibrate_if_needed), the public calibration and mode  *)
(* methods, and the cooperative sampling task.  The I2C bus, the chip and  *)
(* the file system are the environment: every bus operation may fail with  *)
(* OSError, the chip's registers hold whatever the chip put there.         *)
(***************************************************************************)
EXTENDS Integers, Sequences, FiniteSets, TLC

\* ------------------------------------------------------------ constants
MODE_CONFIG == 0
MODE_NDOF == 12
S1_ANGLES == 1
CALIB_LEN == 22
MODE_SETTLE == 10
POLL_INTERVAL == 500

\* ------------------------------------------------------------ bounds
\* Iterations of the calibration polling loop explored in one construction.
MaxPolls == 3

Modes == 0..12
StatusBytes == 0..255

\* Calibration coefficient blocks the chip may hold (always CALIB_LEN bytes).
BlobSeeds == {1, 37}
Blob(k) == [i \in 1..CALIB_LEN |-> (k * i) % 256]
DeviceBlobs == {Blob(k) : k \in BlobSeeds}

\* Byte strings a caller may hand to write_calibration_data.
ApiData == DeviceBlobs \cup {<<>>, SubSeq(Blob(1), 1, CALIB_LEN - 1), Blob(1) \o <<9>>}

\* How many bytes reach the file when f.write fails part-way.
PartialLens == {0, 11}

\* Raw contents of the 6-byte Euler register.
EulerSamples == {<<1, 0, 2, 0, 255, 255>>, <<160, 5, 0, 128, 255, 127>>}

TargetValues == {0, 1440}

\* Raw contents of the 6-byte gyroscope register.
GyroSamples == {<<255, 255, 0, 128, 52, 18>>, <<0, 1, 255, 127, 1, 0>>}

\* The data registers after power-on.
ZeroSample == <<0, 0, 0, 0, 0, 0>>

\* What the chip may hold in the Euler and gyroscope registers at one time.
SensorSamples ==
  {<<ZeroSample, ZeroSample>>}
    \cup {<<e, g>> \in EulerSamples \X GyroSamples : (e[1] = 1) <=> (g[1] = 255)}

\* Register contents in which every byte pair occurs at every position.
WideRaw ==
  {<<lo, hi, hi, lo, 255 - lo, hi>> : lo \in 0..255, hi \in 0..255} \cup EulerSamples

VARIABLES
  pc,               \* position of the controller's code
  opr_mode,         \* chip: operating-mode register
  devCalib,         \* chip: calibration coefficient block
  eulerReg,         \* chip: Euler-angle register (6 bytes)
  gyroReg,          \* chip: gyroscope register (6 bytes)
  fileExists,       \* storage: IMUcalibration.txt is listed
  fileData,         \* storage: its bytes
  state,            \* self.state
  debug,            \* self.debug
  sm_mode,          \* set_mode: argument
  sm_ret,           \* set_mode: who called ("init1", "init2", "api")
  status,           \* calibrate_if_needed: status tuple of the last poll
  calibration_done, \* calibrate_if_needed: loop flag
  angles,           \* task: last decoded Euler triple
  task,             \* generator: "none", "created", "suspended", "dead"
  heading_share,    \* shares[0]
  target_heading,   \* shares[1]
  yielded,          \* value of the last yield
  \* ---- observations of what the code did (history)
  statByte,         \* raw byte of the last status read used for the check
  nStatusReads,     \* status reads in this construction
  firstConv,        \* index of the first status read that returned g=a=m=3
  nonConvPolls,     \* polls whose check was not converged
  calWaited,        \* time units waited by the polling loop
  calPath,          \* "none", "restore", "earn"
  fileAtStart,      \* the file when calibrate_if_needed began
  nFileReads,       \* file reads in calibrate_if_needed
  nPersist,         \* file opens for writing in calibrate_if_needed
  calWrites,        \* coefficient-register write calls in calibrate_if_needed
  earnedBlob,       \* blob read from the chip by the earn path's save
  modeLog,          \* mode-register write attempts of initialize_imu
  notDetected,      \* "[ERROR] BNO055 not detected" was printed
  smWrites,         \* set_mode: write attempts of the current call
  smWaited,         \* set_mode: time units delayed in the current call
  smOutcome,        \* set_mode: "none", "running", "returned", "raised"
  settle_pending,   \* a mode write succeeded and the delay has not run yet
  ctorErr,          \* exception that left __init__ ("" if none)
  last,             \* record of the last public-method call
  savedBlob,        \* blob the last completed save read from the chip and stored
  cyc,              \* events of the current task cycle
  console           \* last debug line of the task: <<target, measured>>

vars == <<pc, opr_mode, devCalib, eulerReg, gyroReg, fileExists, fileData, state, debug, sm_mode,
          sm_ret, status, calibration_done, angles, task, heading_share,
          target_heading, yielded, statByte, nStatusReads, firstConv,
          nonConvPolls, calWaited, calPath, fileAtStart, nFileReads, nPersist,
          calWrites, earnedBlob, modeLog, notDetected, smWrites, smWaited,
          smOutcome, settle_pending, ctorErr, last, savedBlob, cyc, console>>

regVars == <<eulerReg, gyroReg>>
devVars == <<opr_mode, devCalib, regVars>>
fileVars == <<fileExists, fileData>>
smVars == <<sm_mode, sm_ret, smWrites, smWaited, smOutcome, settle_pending>>
calVars == <<status, calibration_done, statByte, nStatusReads, firstConv,
             nonConvPolls, calWaited, calPath, fileAtStart, nFileReads,
             nPersist, calWrites, earnedBlob>>
initVars == <<modeLog, notDetected, ctorErr>>
taskVars == <<angles, task, heading_share, yielded, cyc, console>>
apiVars == <<last, savedBlob>>

NoCall == [op |-> "none", arg |-> <<>>, ret |-> "None", raised |-> FALSE,
           writes |-> <<>>, val |-> <<>>]

\* ------------------------------------------------------------ pure helpers
\* (status >> 6) & 3, (status >> 4) & 3, (status >> 2) & 3, status & 3
DecodeStatus(b) ==
  << (b \div 64) % 4, (b \div 16) % 4, (b \div 4) % 4, b % 4 >>

\* Variant: the sum taken over the first three fields (sys, gyro, accel).
CalibrationDoneOffByOne(st) == st[1] + st[2] + st[3] = 9

\* (status[1] + status[2] + status[3]) == 9; Python indexes from 0.
CalibrationDone(st) == st[2] + st[3] + st[4] = 9

\* The status source delivered a fully calibrated tuple: gyro, accel and mag
\* fields (the low six bits) all at their maximum.
SourceConverged(b) == b % 64 = 63

\* Variant: the pair is decoded as unsigned ("<H").
Int16Unsigned(lo, hi) == lo + 256 * hi

\* One little-endian signed 16-bit value, as struct.unpack("<h") decodes it.
Int16LE(lo, hi) ==
  LET u == lo + 256 * hi IN IF u >= 32768 THEN u - 65536 ELSE u

\* struct.unpack("<hhh", raw_data)
UnpackHHH(raw) ==
  << Int16LE(raw[1], raw[2]), Int16LE(raw[3], raw[4]), Int16LE(raw[5], raw[6]) >>

\* get_euler_angles(): mem_read(6, ..., REG_EULER_ANGLES), which may fail
\* with OSError, then the unpacked triple.
GetEulerAngles ==
  {[raised |-> FALSE, raw |-> eulerReg, val |-> UnpackHHH(eulerReg)],
   [raised |-> TRUE, raw |-> <<>>, val |-> <<>>]}

\* get_angular_velocity(): the same on REG_GYRO_DATA.
GetAngularVelocity ==
  {[raised |-> FALSE, raw |-> gyroReg, val |-> UnpackHHH(gyroReg)],
   [raised |-> TRUE, raw |-> <<>>, val |-> <<>>]}

\* Variant: a file of the wrong size is treated as missing.
FilePresentAndValid == fileExists /\ Len(fileData) = CALIB_LEN

\* filename in listdir()
FilePresent == fileExists

\* Variant: the read drops the last byte.
ReadFileShort == SubSeq(fileData, 1, Len(fileData) - 1)

\* f.read() of a file opened "rb"
ReadFile == fileData

\* write_calibration_data(data): the size check, then one mem_write that may
\* fail with OSError.  Both normal exits return None.
WriteCalibrationResults(data) ==
  IF Len(data) # CALIB_LEN
  THEN {[ret |-> "None", raised |-> FALSE, writes |-> <<>>, dev |-> devCalib]}
  ELSE {[ret |-> "None", raised |-> FALSE, writes |-> <<data>>, dev |-> data],
        [ret |-> "None", raised |-> TRUE, writes |-> <<data>>, dev |-> devCalib]}

\* load_calibration(): True when the file is listed, whatever the write did.
LoadResults ==
  IF ~FilePresent
  THEN {[ret |-> FALSE, raised |-> FALSE, writes |-> <<>>, dev |-> devCalib,
         reads |-> 0]}
  ELSE {[ret |-> ~w.raised, raised |-> w.raised, writes |-> w.writes,
         dev |-> w.dev, reads |-> 1] : w \in WriteCalibrationResults(ReadFile)}

\* get_calibration_data(): mem_read(22, ...) returns the chip's block.
GetCalibrationData == devCalib

\* save_calibration(): open(filename, "wb") truncates the file, then the chip
\* is read, then the bytes are written; any exception is caught and printed.
SaveResults ==
  {[opened |-> FALSE, exists |-> fileExists, data |-> fileData,
    ok |-> FALSE, blob |-> <<>>]}
  \cup {[opened |-> TRUE, exists |-> TRUE, data |-> <<>>,
         ok |-> FALSE, blob |-> <<>>]}
  \cup {[opened |-> TRUE, exists |-> TRUE,
         data |-> SubSeq(GetCalibrationData, 1, n),
         ok |-> FALSE, blob |-> GetCalibrationData] : n \in PartialLens}
  \cup {[opened |-> TRUE, exists |-> TRUE, data |-> GetCalibrationData,
         ok |-> TRUE, blob |-> GetCalibrationData]}

\* ------------------------------------------------------------ initial state
Init ==
  /\ pc = "off"
  /\ opr_mode = MODE_CONFIG
  /\ devCalib \in DeviceBlobs
  /\ eulerReg = ZeroSample
  /\ gyroReg = ZeroSample
  /\ fileExists = FALSE
  /\ fileData = <<>>
  /\ state = S1_ANGLES
  /\ debug = FALSE
  /\ sm_mode = MODE_CONFIG
  /\ sm_ret = "init1"
  /\ status = <<0, 0, 0, 0>>
  /\ calibration_done = FALSE
  /\ angles = <<0, 0, 0>>
  /\ task = "none"
  /\ heading_share = 0
  /\ target_heading = 0
  /\ yielded = -1
  /\ statByte = 0
  /\ nStatusReads = 0
  /\ firstConv = 0
  /\ nonConvPolls = 0
  /\ calWaited = 0
  /\ calPath = "none"
  /\ fileAtStart = [exists |-> FALSE, data |-> <<>>]
  /\ nFileReads = 0
  /\ nPersist = 0
  /\ calWrites = <<>>
  /\ earnedBlob = <<>>
  /\ modeLog = <<>>
  /\ notDetected = FALSE
  /\ smWrites = 0
  /\ smWaited = 0
  /\ smOutcome = "none"
  /\ settle_pending = FALSE
  /\ ctorErr = ""
  /\ last = NoCall
  /\ savedBlob = <<>>
  /\ cyc = <<>>
  /\ console = <<>>

\* Observations of calibrate_if_needed, cleared when a construction starts and
\* when it ends (its locals go out of scope).
CalReset ==
  /\ status' = <<0, 0, 0, 0>>
  /\ calibration_done' = FALSE
  /\ statByte' = 0
  /\ nStatusReads' = 0
  /\ firstConv' = 0
  /\ nonConvPolls' = 0
  /\ calWaited' = 0
  /\ calPath' = "none"
  /\ fileAtStart' = [exists |-> FALSE, data |-> <<>>]
  /\ nFileReads' = 0
  /\ nPersist' = 0
  /\ calWrites' = <<>>
  /\ earnedBlob' = <<>>

\* The observations of the previous set_mode call end with the next call.
SetModeForgotten ==
  /\ sm_mode' = MODE_CONFIG
  /\ sm_ret' = "api"
  /\ smWrites' = 0
  /\ smWaited' = 0
  /\ smOutcome' = "none"
  /\ UNCHANGED settle_pending

\* ------------------------------------------------------------ __init__
\* BNO055(debug): self.state = S1_ANGLES, then initialize_imu() begins with
\* set_mode(MODE_CONFIG).
Construct ==
  /\ pc = "off"
  /\ state' = S1_ANGLES
  /\ pc' = "sm_write"
  /\ sm_mode' = MODE_CONFIG
  /\ sm_ret' = "init1"
  /\ smWrites' = 0
  /\ smWaited' = 0
  /\ smOutcome' = "running"
  /\ modeLog' = <<>>
  /\ notDetected' = FALSE
  /\ ctorErr' = ""
  /\ UNCHANGED <<devVars, fileVars, debug, settle_pending, calVars, taskVars,
                 target_heading, apiVars>>

\* ------------------------------------------------------------ set_mode
\* An OSError of mem_write is printed and re-raised; it reaches the caller:
\* __init__ (the first call of initialize_imu is outside the try), the bare
\* except of initialize_imu (second call), or the caller of the method.
SetModeRaise ==
  /\ smOutcome' = "raised"
  /\ sm_ret = "init1" =>
       /\ pc' = "failed"
       /\ ctorErr' = "OSError"
       /\ UNCHANGED <<notDetected, apiVars>>
  /\ sm_ret = "init2" =>
       /\ pc' = "cal_load"
       /\ notDetected' = TRUE
       /\ UNCHANGED <<ctorErr, apiVars>>
  /\ sm_ret = "api" =>
       /\ pc' = "ready"
       /\ last' = [NoCall EXCEPT !.op = "set_mode", !.arg = <<sm_mode>>,
                                 !.raised = TRUE]
       /\ UNCHANGED savedBlob
       /\ UNCHANGED <<ctorErr, notDetected>>

\* self.i2c.mem_write(mode, I2C_ADDR, REG_OPR_MODE)
SetModeWrite ==
  /\ pc = "sm_write"
  /\ smWrites' = smWrites + 1
  /\ modeLog' = IF sm_ret = "api" THEN modeLog ELSE Append(modeLog, sm_mode)
  /\ \/ /\ opr_mode' = sm_mode
        /\ settle_pending' = TRUE
        /\ pc' = "sm_delay"
        /\ UNCHANGED <<smOutcome, ctorErr, notDetected, apiVars>>
     \/ /\ SetModeRaise
        /\ UNCHANGED <<opr_mode, settle_pending>>
  /\ UNCHANGED <<devCalib, regVars, fileVars, state, debug, sm_mode, sm_ret, smWaited,
                 calVars, taskVars, target_heading>>

\* Variant: set_mode returns without the settle delay.
SetModeNoDelay ==
  /\ pc = "sm_delay"
  /\ smWaited' = smWaited
  /\ settle_pending' = FALSE
  /\ smOutcome' = "returned"
  /\ pc' = CASE sm_ret = "init1" -> "init_ndof"
             [] sm_ret = "init2" -> "cal_load"
             [] OTHER -> "ready"
  /\ IF sm_ret = "api"
     THEN /\ last' = [NoCall EXCEPT !.op = "set_mode", !.arg = <<sm_mode>>]
          /\ UNCHANGED savedBlob
     ELSE UNCHANGED apiVars
  /\ UNCHANGED <<devVars, fileVars, state, debug, sm_mode, sm_ret, smWrites,
                 calVars, initVars, taskVars, target_heading>>

\* pyb.delay(10), then return to the caller.
SetModeDelay ==
  /\ pc = "sm_delay"
  /\ smWaited' = smWaited + MODE_SETTLE
  /\ settle_pending' = FALSE
  /\ smOutcome' = "returned"
  /\ pc' = CASE sm_ret = "init1" -> "init_ndof"
             [] sm_ret = "init2" -> "cal_load"
             [] OTHER -> "ready"
  /\ IF sm_ret = "api"
     THEN /\ last' = [NoCall EXCEPT !.op = "set_mode", !.arg = <<sm_mode>>]
          /\ UNCHANGED savedBlob
     ELSE UNCHANGED apiVars
  /\ UNCHANGED <<devVars, fileVars, state, debug, sm_mode, sm_ret, smWrites,
                 calVars, initVars, taskVars, target_heading>>

\* initialize_imu: try: self.set_mode(self.MODE_NDOF)
InitNdof ==
  /\ pc = "init_ndof"
  /\ pc' = "sm_write"
  /\ sm_mode' = MODE_NDOF
  /\ sm_ret' = "init2"
  /\ smWrites' = 0
  /\ smWaited' = 0
  /\ smOutcome' = "running"
  /\ UNCHANGED <<devVars, fileVars, state, debug, settle_pending, calVars,
                 initVars, taskVars, target_heading, apiVars>>

\* ------------------------------------------------------------ calibrate_if_needed
\* An OSError inside calibrate_if_needed is not caught: it leaves __init__.
CtorRaise ==
  /\ pc' = "failed"
  /\ ctorErr' = "OSError"

\* if not self.load_calibration():
CalLoad ==
  /\ pc = "cal_load"
  /\ fileAtStart' = [exists |-> fileExists, data |-> fileData]
  /\ \E r \in LoadResults :
       /\ nFileReads' = r.reads
       /\ calWrites' = r.writes
       /\ devCalib' = r.dev
       /\ IF r.raised
          THEN /\ CtorRaise
               /\ calPath' = "restore"
          ELSE /\ pc' = IF r.ret THEN "cal_done" ELSE "cal_poll"
               /\ calPath' = IF r.ret THEN "restore" ELSE "earn"
               /\ UNCHANGED ctorErr
  /\ calibration_done' = FALSE
  /\ UNCHANGED <<opr_mode, regVars, fileVars, state, debug, smVars, status, statByte,
                 nStatusReads, firstConv, nonConvPolls, calWaited, nPersist,
                 earnedBlob, modeLog, notDetected, taskVars, target_heading,
                 apiVars>>

\* One more read of the status register was answered with byte b.
StatusRead(b) ==
  /\ nStatusReads' = nStatusReads + 1
  /\ firstConv' = IF firstConv = 0 /\ SourceConverged(b)
                  THEN nStatusReads + 1 ELSE firstConv

\* status = self.get_calibration_status()
\* calibration_done = (status[1] + status[2] + status[3]) == 9
CalPoll ==
  /\ pc = "cal_poll"
  /\ ~calibration_done
  /\ nStatusReads < 2 * MaxPolls
  /\ \/ \E b \in StatusBytes :
          /\ StatusRead(b)
          /\ statByte' = b
          /\ status' = DecodeStatus(b)
          /\ calibration_done' = CalibrationDone(DecodeStatus(b))
          /\ nonConvPolls' = IF CalibrationDone(DecodeStatus(b))
                             THEN nonConvPolls ELSE nonConvPolls + 1
          /\ pc' = "cal_log"
          /\ UNCHANGED ctorErr
     \/ /\ CtorRaise
        /\ UNCHANGED <<status, calibration_done, statByte, nStatusReads,
                       firstConv, nonConvPolls>>
  /\ UNCHANGED <<devVars, fileVars, state, debug, smVars, calWaited, calPath,
                 fileAtStart, nFileReads, nPersist, calWrites, earnedBlob,
                 modeLog, notDetected, taskVars, target_heading, apiVars>>

\* print("Calibrating...", self.get_calibration_status())
CalLog ==
  /\ pc = "cal_log"
  /\ \/ \E b \in StatusBytes :
          /\ StatusRead(b)
          /\ pc' = "cal_delay"
          /\ UNCHANGED ctorErr
     \/ /\ CtorRaise
        /\ UNCHANGED <<nStatusReads, firstConv>>
  /\ UNCHANGED <<devVars, fileVars, state, debug, smVars, status,
                 calibration_done, statByte, nonConvPolls, calWaited, calPath,
                 fileAtStart, nFileReads, nPersist, calWrites, earnedBlob,
                 modeLog, notDetected, taskVars, target_heading, apiVars>>

\* Variant: the loop gives up after two iterations (a retry limit).
CalDelayGivesUp ==
  /\ pc = "cal_delay"
  /\ calWaited' = calWaited + POLL_INTERVAL
  /\ pc' = IF calibration_done \/ nStatusReads >= 4 THEN "cal_save" ELSE "cal_poll"
  /\ UNCHANGED <<devVars, fileVars, state, debug, smVars, status,
                 calibration_done, statByte, nStatusReads, firstConv,
                 nonConvPolls, calPath, fileAtStart, nFileReads, nPersist,
                 calWrites, earnedBlob, initVars, taskVars, target_heading,
                 apiVars>>

\* Variant: the while test is never made; the loop always goes round again.
CalDelayLoopsOn ==
  /\ pc = "cal_delay"
  /\ calWaited' = calWaited + POLL_INTERVAL
  /\ pc' = "cal_poll"
  /\ UNCHANGED <<devVars, fileVars, state, debug, smVars, status,
                 calibration_done, statByte, nStatusReads, firstConv,
                 nonConvPolls, calPath, fileAtStart, nFileReads, nPersist,
                 calWrites, earnedBlob, initVars, taskVars, target_heading,
                 apiVars>>

\* pyb.delay(500), then the while test.
CalDelay ==
  /\ pc = "cal_delay"
  /\ calWaited' = calWaited + POLL_INTERVAL
  /\ pc' = IF calibration_done THEN "cal_save" ELSE "cal_poll"
  /\ UNCHANGED <<devVars, fileVars, state, debug, smVars, status,
                 calibration_done, statByte, nStatusReads, firstConv,
                 nonConvPolls, calPath, fileAtStart, nFileReads, nPersist,
                 calWrites, earnedBlob, initVars, taskVars, target_heading,
                 apiVars>>

\* self.save_calibration()
CalSave ==
  /\ pc = "cal_save"
  /\ \E r \in SaveResults :
       /\ fileExists' = r.exists
       /\ fileData' = r.data
       /\ earnedBlob' = r.blob
       /\ savedBlob' = IF r.ok THEN r.blob ELSE <<>>
  /\ nPersist' = nPersist + 1
  /\ pc' = "cal_done"
  /\ UNCHANGED <<devVars, state, debug, smVars, status, calibration_done,
                 statByte, nStatusReads, firstConv, nonConvPolls, calWaited,
                 calPath, fileAtStart, nFileReads, calWrites, initVars,
                 taskVars, target_heading, last>>

\* print("[BNO055] Calibration complete and saved."); back in __init__:
\* self.debug = debug; gc.collect()
FinishInit ==
  /\ pc = "cal_done"
  /\ debug' \in BOOLEAN
  /\ pc' = "ready"
  /\ CalReset
  /\ modeLog' = <<>>
  /\ notDetected' = FALSE
  /\ SetModeForgotten
  /\ UNCHANGED <<devVars, fileVars, state, ctorErr, taskVars, target_heading,
                 apiVars>>

\* ------------------------------------------------------------ public methods
\* A caller invokes set_mode(m) on the constructed controller.
ApiSetMode ==
  /\ pc = "ready"
  /\ task = "none"
  /\ \E m \in Modes : sm_mode' = m
  /\ sm_ret' = "api"
  /\ smWrites' = 0
  /\ smWaited' = 0
  /\ smOutcome' = "running"
  /\ pc' = "sm_write"
  /\ UNCHANGED <<devVars, fileVars, state, debug, settle_pending, calVars,
                 initVars, taskVars, target_heading, apiVars>>

\* A caller invokes write_calibration_data(data).
ApiWriteCalibration ==
  /\ pc = "ready"
  /\ task = "none"
  /\ \E data \in ApiData : \E r \in WriteCalibrationResults(data) :
       /\ devCalib' = r.dev
       /\ last' = [NoCall EXCEPT !.op = "write_calibration_data",
                                 !.arg = data, !.ret = r.ret,
                                 !.raised = r.raised, !.writes = r.writes]
  /\ SetModeForgotten
  /\ UNCHANGED <<pc, opr_mode, regVars, fileVars, state, debug, calVars, initVars,
                 taskVars, target_heading, savedBlob>>

\* A caller invokes save_calibration().
ApiSave ==
  /\ pc = "ready"
  /\ task = "none"
  /\ \E r \in SaveResults :
       /\ fileExists' = r.exists
       /\ fileData' = r.data
       /\ savedBlob' = IF r.ok THEN r.blob ELSE <<>>
       /\ last' = [NoCall EXCEPT !.op = "save_calibration"]
  /\ SetModeForgotten
  /\ UNCHANGED <<pc, devVars, state, debug, calVars, initVars, taskVars,
                 target_heading>>

\* A caller invokes load_calibration().
ApiLoad ==
  /\ pc = "ready"
  /\ task = "none"
  /\ \E r \in LoadResults :
       /\ devCalib' = r.dev
       /\ last' = [NoCall EXCEPT !.op = "load_calibration",
                                 !.ret = IF r.raised THEN "None"
                                         ELSE IF r.ret THEN "True" ELSE "False",
                                 !.raised = r.raised, !.writes = r.writes]
  /\ SetModeForgotten
  /\ UNCHANGED <<pc, opr_mode, regVars, fileVars, state, debug, calVars, initVars,
                 taskVars, target_heading, savedBlob>>

\* A caller invokes get_euler_angles().
ApiGetEulerAngles ==
  /\ pc = "ready"
  /\ task = "none"
  /\ \E r \in GetEulerAngles :
       last' = [NoCall EXCEPT !.op = "get_euler_angles", !.arg = r.raw,
                              !.raised = r.raised, !.val = r.val]
  /\ SetModeForgotten
  /\ UNCHANGED <<pc, devVars, fileVars, state, debug, calVars, initVars,
                 taskVars, target_heading, savedBlob>>

\* A caller invokes get_angular_velocity().
ApiGetAngularVelocity ==
  /\ pc = "ready"
  /\ task = "none"
  /\ \E r \in GetAngularVelocity :
       last' = [NoCall EXCEPT !.op = "get_angular_velocity", !.arg = r.raw,
                              !.raised = r.raised, !.val = r.val]
  /\ SetModeForgotten
  /\ UNCHANGED <<pc, devVars, fileVars, state, debug, calVars, initVars,
                 taskVars, target_heading, savedBlob>>

\* ------------------------------------------------------------ task
\* task(shares) is called: a generator object exists, nothing has run.
TaskCreate ==
  /\ pc = "ready"
  /\ task = "none"
  /\ task' = "created"
  /\ last' = NoCall
  /\ SetModeForgotten
  /\ UNCHANGED <<pc, devVars, fileVars, state, debug, calVars, initVars,
                 angles, heading_share, yielded, cyc, console, target_heading,
                 savedBlob>>

\* The scheduler calls next() on the generator: gc.collect() and on to the read.
TaskResume ==
  /\ pc = "ready"
  /\ task \in {"created", "suspended"}
  /\ pc' = "t_read"
  /\ task' = "running"
  /\ cyc' = <<>>
  /\ UNCHANGED <<devVars, fileVars, state, debug, smVars, calVars, initVars,
                 angles, heading_share, yielded, console, target_heading,
                 apiVars>>

\* angles = imu.get_euler_angles(); an OSError is not caught by the task and
\* ends the generator.
TaskRead ==
  /\ pc = "t_read"
  /\ \E r \in GetEulerAngles :
       IF r.raised
       THEN /\ cyc' = Append(cyc, "read_failed")
            /\ task' = "dead"
            /\ pc' = "ready"
            /\ UNCHANGED angles
       ELSE /\ angles' = r.val
            /\ cyc' = Append(cyc, "read")
            /\ pc' = "t_debug"
            /\ UNCHANGED task
  /\ UNCHANGED <<devVars, fileVars, state, debug, smVars, calVars, initVars,
                 heading_share, yielded, console, target_heading, apiVars>>

\* if self.debug: print(target_heading.get(), heading_share.get())
TaskDebug ==
  /\ pc = "t_debug"
  /\ IF debug
     THEN /\ console' = <<target_heading, heading_share>>
          /\ cyc' = Append(cyc, "log")
     ELSE UNCHANGED <<console, cyc>>
  /\ pc' = "t_put"
  /\ UNCHANGED <<devVars, fileVars, state, debug, smVars, calVars, initVars,
                 angles, task, heading_share, yielded, target_heading,
                 apiVars>>

\* Variant: the pitch component is published.
TaskPutPitch ==
  /\ pc = "t_put"
  /\ heading_share' = angles[2]
  /\ cyc' = Append(cyc, "put")
  /\ pc' = "t_yield"
  /\ UNCHANGED <<devVars, fileVars, state, debug, smVars, calVars, initVars,
                 angles, task, yielded, console, target_heading, apiVars>>

\* Variant: the value is put into the target-heading slot.
TaskPutToTarget ==
  /\ pc = "t_put"
  /\ target_heading' = angles[1]
  /\ cyc' = Append(cyc, "put")
  /\ pc' = "t_yield"
  /\ UNCHANGED <<devVars, fileVars, state, debug, smVars, calVars, initVars,
                 angles, task, yielded, console, heading_share, apiVars>>

\* heading_share.put(angles[0])
TaskPut ==
  /\ pc = "t_put"
  /\ heading_share' = angles[1]
  /\ cyc' = Append(cyc, "put")
  /\ pc' = "t_yield"
  /\ UNCHANGED <<devVars, fileVars, state, debug, smVars, calVars, initVars,
                 angles, task, yielded, console, target_heading, apiVars>>

\* yield imu.state
TaskYield ==
  /\ pc = "t_yield"
  /\ yielded' = state
  /\ cyc' = Append(cyc, "yield")
  /\ task' = "suspended"
  /\ pc' = "ready"
  /\ UNCHANGED <<devVars, fileVars, state, debug, smVars, calVars, initVars,
                 angles, heading_share, console, target_heading, apiVars>>

\* ------------------------------------------------------------ environment
\* Another task sets the target heading.
SetTarget ==
  /\ pc = "ready"
  /\ task # "none"
  /\ \E t \in TargetValues \ {target_heading} : target_heading' = t
  /\ UNCHANGED <<pc, devVars, fileVars, state, debug, smVars, calVars,
                 initVars, taskVars, apiVars>>

\* The chip puts a new sample into its data registers.
DeviceSample ==
  /\ pc = "ready"
  /\ \E x \in SensorSamples \ {<<eulerReg, gyroReg>>} :
       /\ eulerReg' = x[1]
       /\ gyroReg' = x[2]
  /\ UNCHANGED <<pc, opr_mode, devCalib, fileVars, state, debug, smVars,
                 calVars, initVars, taskVars, target_heading, apiVars>>

\* The chip, in a fusion mode, recomputes its calibration coefficients.
DeviceRecalibrate ==
  /\ pc \in {"ready", "cal_poll"}
  /\ \E b \in DeviceBlobs \ {devCalib} : devCalib' = b
  /\ UNCHANGED <<pc, opr_mode, regVars, fileVars, state, debug, smVars, calVars,
                 initVars, taskVars, target_heading, apiVars>>

\* Power is cycled or the board is reset: the program starts over, the file
\* stays, the chip is back in its power-on mode.
Reboot ==
  /\ pc # "off"
  /\ pc' = "off"
  /\ opr_mode' = MODE_CONFIG
  /\ devCalib' \in DeviceBlobs
  /\ eulerReg' = ZeroSample
  /\ gyroReg' = ZeroSample
  /\ debug' = FALSE
  /\ task' = "none"
  /\ angles' = <<0, 0, 0>>
  /\ heading_share' = 0
  /\ target_heading' = 0
  /\ yielded' = -1
  /\ cyc' = <<>>
  /\ console' = <<>>
  /\ last' = NoCall
  /\ settle_pending' = FALSE
  /\ smWrites' = 0
  /\ smWaited' = 0
  /\ smOutcome' = "none"
  /\ modeLog' = <<>>
  /\ notDetected' = FALSE
  /\ ctorErr' = ""
  /\ CalReset
  /\ UNCHANGED <<fileVars, state, sm_mode, sm_ret, savedBlob>>

Next ==
  \/ Construct
  \/ SetModeWrite
  \/ SetModeDelay
  \/ InitNdof
  \/ CalLoad
  \/ CalPoll
  \/ CalLog
  \/ CalDelay
  \/ CalSave
  \/ FinishInit
  \/ ApiSetMode
  \/ ApiWriteCalibration
  \/ ApiSave
  \/ ApiLoad
  \/ ApiGetEulerAngles
  \/ ApiGetAngularVelocity
  \/ TaskCreate
  \/ TaskResume
  \/ TaskRead
  \/ TaskDebug
  \/ TaskPut
  \/ TaskYield
  \/ SetTarget
  \/ DeviceSample
  \/ DeviceRecalibrate
  \/ Reboot

Spec == Init /\ [][Next]_vars

\* ------------------------------------------------------------ construction alone
\* One construction, run to its end as the blocking code runs it, facing a
\* chip whose status is fully calibrated by the last poll explored, at the
\* latest.
LivePoll ==
  /\ CalPoll
  /\ nStatusReads >= 2 * (MaxPolls - 1) => calibration_done'

LiveNext ==
  \/ Construct
  \/ SetModeWrite
  \/ SetModeDelay
  \/ InitNdof
  \/ CalLoad
  \/ LivePoll
  \/ CalLog
  \/ CalDelay
  \/ CalSave
  \/ FinishInit

LiveSpec == Init /\ [][LiveNext]_vars /\ WF_vars(LiveNext)

\* ------------------------------------------------------------ decoding
\* A constructed controller (the earn path's save could not open the file)
\* facing a chip whose data registers hold any of the wide contents; each
\* reader is applied once.
DecodeInit ==
  /\ pc = "ready"
  /\ opr_mode = MODE_NDOF
  /\ devCalib = Blob(1)
  /\ eulerReg \in WideRaw
  /\ gyroReg = eulerReg
  /\ fileExists = FALSE
  /\ fileData = <<>>
  /\ state = S1_ANGLES
  /\ debug = FALSE
  /\ sm_mode = MODE_CONFIG
  /\ sm_ret = "api"
  /\ status = <<0, 0, 0, 0>>
  /\ calibration_done = FALSE
  /\ angles = <<0, 0, 0>>
  /\ task = "none"
  /\ heading_share = 0
  /\ target_heading = 0
  /\ yielded = -1
  /\ statByte = 0
  /\ nStatusReads = 0
  /\ firstConv = 0
  /\ nonConvPolls = 0
  /\ calWaited = 0
  /\ calPath = "none"
  /\ fileAtStart = [exists |-> FALSE, data |-> <<>>]
  /\ nFileReads = 0
  /\ nPersist = 0
  /\ calWrites = <<>>
  /\ earnedBlob = <<>>
  /\ modeLog = <<>>
  /\ notDetected = FALSE
  /\ smWrites = 0
  /\ smWaited = 0
  /\ smOutcome = "none"
  /\ settle_pending = FALSE
  /\ ctorErr = ""
  /\ last = NoCall
  /\ savedBlob = <<>>
  /\ cyc = <<>>
  /\ console = <<>>

DecodeEulerOnce == last.op = "none" /\ ApiGetEulerAngles

DecodeGyroOnce == last.op = "none" /\ ApiGetAngularVelocity

DecodeNext ==
  \/ DecodeEulerOnce
  \/ DecodeGyroOnce

DecodeSpec == DecodeInit /\ [][DecodeNext]_vars

\* ------------------------------------------------------------ properties
Range(q) == {q[i] : i \in 1..Len(q)}

\* calibrate_if_needed has left the polling loop on the earn path.
EarnLoopLeft == calPath = "earn" /\ pc \in {"cal_save", "cal_done"}

\* C1: on the earn path, when the first converged tuple of the status source
\* is its k-th one, the loop is left after the k-th status read with no
\* further status read, and Converged is reached with the chip's blob read
\* and persisted.
C1_EarnExitsAtFirstConvergedPoll ==
  /\ EarnLoopLeft => (firstConv > 0 /\ nStatusReads = firstConv)
  /\ (calPath = "earn" /\ pc = "cal_done") =>
       (Len(earnedBlob) = CALIB_LEN /\ fileExists /\ fileData = earnedBlob)

\* C2: for every status byte 64*sys + 16*gyro + 4*accel + mag, the poll is
\* decoded into (sys, gyro, accel, mag) and counts as converged exactly when
\* gyro + accel + mag = 9, whatever sys is; the loop is left only after such a
\* poll and continues after any other.
C2_ConvergencePredicate ==
  /\ pc \in {"cal_log", "cal_delay"} =>
       \A sy \in 0..3, g \in 0..3, a \in 0..3, m \in 0..3 :
         statByte = 64 * sy + 16 * g + 4 * a + m =>
           /\ status = <<sy, g, a, m>>
           /\ calibration_done <=> (g + a + m = 9)
           /\ calibration_done <=> (g = 3 /\ a = 3 /\ m = 3)
  /\ (pc \in {"cal_log", "cal_delay"} /\ statByte = 63) => calibration_done
  /\ (pc \in {"cal_log", "cal_delay"} /\ statByte = 254) => ~calibration_done
  /\ pc = "cal_save" => statByte % 64 = 63
  /\ (pc = "cal_poll" /\ nStatusReads > 0) => statByte % 64 # 63

\* C2 witness: the tuple (0,3,3,3) ended the loop.
C2_Witness == pc = "cal_save" /\ statByte = 63 /\ status = <<0, 3, 3, 3>>

\* C3: whenever Converged is reached through the restore path, the stored
\* bytes were written verbatim to the coefficient register, whatever the
\* persisted file holds.
C3_RestoreWritesBlob ==
  (pc = "cal_done" /\ calPath = "restore") => calWrites = <<fileAtStart.data>>

\* C4: calibrate_if_needed takes the earn path exactly when no persisted file
\* exists; when the file exists it is read once, no status poll and no persist
\* happen, and the file is left as it was.
C4_FilePresenceSelectsPath ==
  /\ pc \in {"cal_poll", "cal_log", "cal_delay", "cal_save"} => calPath = "earn"
  /\ calPath = "earn" => (~fileAtStart.exists /\ nFileReads = 0)
  /\ calPath = "restore" =>
       /\ fileAtStart.exists
       /\ nFileReads = 1
       /\ nStatusReads = 0
       /\ nPersist = 0
       /\ fileExists
       /\ fileData = fileAtStart.data
  /\ pc = "cal_done" => calPath \in {"earn", "restore"}

\* C4 witness: Converged reached by restoring an existing file.
C4_Witness ==
  /\ pc = "cal_done"
  /\ calPath = "restore"
  /\ fileAtStart.exists
  /\ Len(calWrites) = 1

\* C5: after a save_calibration that read blob b from the chip and stored it,
\* a load_calibration makes exactly one coefficient-register write, and its
\* bytes are b.
C5_RoundTrip ==
  /\ (last.op = "load_calibration" /\ ~last.raised /\ savedBlob # <<>>) =>
       (last.writes = <<savedBlob>> /\ last.ret = "True")
  /\ (pc = "cal_done" /\ calPath = "restore" /\ savedBlob # <<>>) =>
       calWrites = <<savedBlob>>
  /\ savedBlob # <<>> => Len(savedBlob) = CALIB_LEN

\* C5 witness: a load after a completed save wrote the saved blob.
C5_Witness ==
  /\ last.op = "load_calibration"
  /\ ~last.raised
  /\ savedBlob = Blob(37)
  /\ last.writes = <<Blob(37)>>

\* C6: write_calibration_data with a blob of another length than 22 makes no
\* transport write, raises nothing and returns a validation failure (a value
\* other than the one a successful write returns); with 22 bytes the transport
\* sees exactly one write carrying those bytes.
C6_InvalidSizeReturnsFailure ==
  /\ (last.op = "write_calibration_data" /\ Len(last.arg) # CALIB_LEN) =>
       (last.writes = <<>> /\ ~last.raised /\ last.ret # "None")
  /\ (last.op = "write_calibration_data" /\ Len(last.arg) = CALIB_LEN) =>
       last.writes = <<last.arg>>

\* C7: set_mode makes exactly one write attempt; when the write succeeds the
\* register holds the mode and the 10-unit delay runs before anything else;
\* when it fails the error reaches the caller with no retry and no delay.
C7_SetModeOneWriteThenSettle ==
  /\ smOutcome = "returned" =>
       (smWrites = 1 /\ smWaited = MODE_SETTLE /\ opr_mode = sm_mode)
  /\ smOutcome = "raised" =>
       /\ smWrites = 1
       /\ smWaited = 0
       /\ sm_ret = "api" =>
            (pc = "ready" /\ last.op = "set_mode" /\ last.raised
               /\ last.arg = <<sm_mode>>)
       /\ sm_ret = "init1" => (pc = "failed" /\ ctorErr = "OSError")
       /\ sm_ret = "init2" => notDetected
  /\ smOutcome = "running" => (smWrites <= 1 /\ smWaited = 0)
  /\ settle_pending => (pc = "sm_delay" /\ smWrites = 1)

\* C7 witness: a caller's set_mode failed on the bus and raised.
C7_Witness ==
  /\ smOutcome = "raised"
  /\ sm_ret = "api"
  /\ last.raised
  /\ sm_mode = 8

\* C8: initialize_imu always issues the config-mode write and then the NDOF
\* write; a failure of the second is logged and construction goes on to the
\* calibration step.
C8_InitializeAlwaysConfigThenNdof ==
  /\ pc \in {"cal_load", "failed"} => modeLog = <<MODE_CONFIG, MODE_NDOF>>
  /\ (smOutcome = "raised" /\ sm_ret = "init2") =>
       (notDetected /\ (pc = "cal_load" \/ calPath # "none"))

\* C9: at every suspension the cycle has read the Euler angles once, published
\* the heading of that read once, and yielded once, last of all; the yielded
\* value is always the angle-streaming state.
C9_TaskCycle ==
  /\ task = "suspended" =>
       /\ cyc \in {<<"read", "put", "yield">>, <<"read", "log", "put", "yield">>}
       /\ heading_share = angles[1]
       /\ yielded = S1_ANGLES
  /\ yielded \in {-1, S1_ANGLES}
  /\ pc \in {"t_read", "t_debug", "t_put", "t_yield"} => task = "running"

\* C9 witness: the task is suspended after publishing heading 1440.
C9_Witness ==
  /\ task = "suspended"
  /\ heading_share = 1440
  /\ yielded = 1
  /\ cyc = <<"read", "put", "yield">>

\* C10: when the Euler read fails in a cycle there is no retry, no heading is
\* published in that cycle, and the task stays runnable to sample again.
C10_ReadFailureSkipsCycle ==
  "read_failed" \in Range(cyc) =>
    (cyc = <<"read_failed">> /\ task \in {"running", "suspended"})

\* A step taken by the body of task(): the resume and everything up to the
\* yield (a power cycle in the middle of a cycle is not the task's doing).
TaskStep ==
  /\ pc \in {"t_read", "t_debug", "t_put", "t_yield"} \/ (pc = "ready" /\ pc' = "t_read")
  /\ pc' # "off"

\* C11: the steps of task() only read the Euler register and write the
\* heading slot: the target-heading slot, the mode and coefficient registers
\* and the persisted file stay as they are, and no status read, file read,
\* persist, mode write or coefficient write is counted.
C11_TaskFrame ==
  [][TaskStep =>
       /\ UNCHANGED <<target_heading, opr_mode, devCalib, fileExists, fileData>>
       /\ UNCHANGED <<smWrites, modeLog, nStatusReads, nFileReads, nPersist,
                      calWrites, savedBlob, last>>
       /\ Range(cyc') \subseteq {"read", "read_failed", "log", "put", "yield"}
       /\ heading_share' # heading_share => pc = "t_put"]_vars

\* C11 witness: the task has completed a cycle while another task had set the
\* target heading; the target is still what that task set.
C11_Witness ==
  /\ task = "suspended"
  /\ target_heading = 1440
  /\ heading_share = 1
  /\ fileExists

\* The signed 16-bit value of a byte pair: the one number of the range that
\* is congruent to lo + 256*hi modulo 65536.
IsInt16Of(v, lo, hi) ==
  /\ v \in -32768..32767
  /\ (lo + 256 * hi) - v \in {0, 65536}

\* C12: get_euler_angles and get_angular_velocity return, for every register
\* content, the three little-endian two's-complement 16-bit values of its
\* byte pairs, unconverted; 01 00 02 00 FF FF decodes to (1, 2, -1).
C12_OrientationDecoding ==
  (last.op \in {"get_euler_angles", "get_angular_velocity"} /\ ~last.raised) =>
    /\ last.arg = IF last.op = "get_euler_angles" THEN eulerReg ELSE gyroReg
    /\ Len(last.arg) = 6
    /\ Len(last.val) = 3
    /\ \A i \in 1..3 :
         IsInt16Of(last.val[i], last.arg[2 * i - 1], last.arg[2 * i])
    /\ last.arg = <<1, 0, 2, 0, 255, 255>> => last.val = <<1, 2, -1>>

\* C12 witness: the bytes 01 00 02 00 FF FF were read and decoded.
C12_Witness ==
  /\ last.op = "get_euler_angles"
  /\ last.arg = <<1, 0, 2, 0, 255, 255>>
  /\ last.val = <<1, 2, -1>>

\* C13: the persisted file is either absent or holds exactly 22 bytes, after
\* any calls of save_calibration and load_calibration, failed ones included.
C13_FileAbsentOrFullBlob ==
  fileExists => Len(fileData) = CALIB_LEN

\* C14: whenever calibrate_if_needed returns normally on the earn path, the
\* persisted file holds the 22-byte blob read from the chip after convergence.
C14_EarnPersistsBeforeConverged ==
  (pc = "cal_done" /\ calPath = "earn") =>
    /\ Len(earnedBlob) = CALIB_LEN
    /\ fileExists
    /\ fileData = earnedBlob

\* C17: with debug enabled the heading read in a cycle is published before
\* the comparison is logged, so the measured heading in the log line is the
\* value read in that cycle.
C17_DebugLogsThisCyclesHeading ==
  (task = "suspended" /\ "log" \in Range(cyc)) =>
    /\ cyc = <<"read", "put", "log", "yield">>
    /\ console[2] = angles[1]

\* C18: the loop waits 500 units only after a poll that was not converged, so
\* the time waited is 500 times the number of non-converged polls.
C18_WaitOnlyAfterNonConvergedPoll ==
  (calPath = "earn" /\ pc \in {"cal_poll", "cal_save", "cal_done"}) =>
    calWaited = POLL_INTERVAL * nonConvPolls

\* C19: the calibration step (restore write or polling loop) runs only when
\* the last successful mode write was NDOF; the loop is never entered with
\* the chip left in config mode.
C19_CalibrationInFusionMode ==
  /\ pc \in {"cal_poll", "cal_log", "cal_delay", "cal_save"} =>
       opr_mode = MODE_NDOF
  /\ (pc = "cal_done" /\ calPath = "restore") => opr_mode = MODE_NDOF

\* calibrate_if_needed is inside the polling loop.
InEarning == pc \in {"cal_poll", "cal_log", "cal_delay"}

\* Control leaves the polling loop (a power cycle is not control flow).
LeavesEarning == InEarning /\ pc' \notin {"cal_poll", "cal_log", "cal_delay", "off"}

\* The exit through the while test after a converged poll.
ConvergedExit ==
  /\ pc' = "cal_save"
  /\ calibration_done
  /\ status[2] + status[3] + status[4] = 9

\* The file is opened for writing only on the earn path after a converged poll.
PersistOnlyAfterConvergence ==
  nPersist' > nPersist => (pc = "cal_save" /\ calibration_done /\ statByte % 64 = 63)

\* C15 as stated: the only exit from the polling loop is a poll satisfying
\* gyro + accel + mag = 9; no error path leaves it, and the blob is read and
\* persisted only after such a poll.
C15_OnlyExitIsConvergence ==
  [][(LeavesEarning => ConvergedExit) /\ PersistOnlyAfterConvergence]_vars

\* C15 amended: the loop is left either after a poll satisfying
\* gyro + accel + mag = 9, or by an OSError of a status read, which leaves
\* calibrate_if_needed and __init__ with nothing persisted; there is no
\* timeout, retry limit or cancellation, and the blob is read and persisted
\* only after a converged poll.
C15_ExitByConvergenceOrBusError ==
  [][/\ LeavesEarning =>
          \/ ConvergedExit
          \/ /\ pc \in {"cal_poll", "cal_log"}
             /\ pc' = "failed"
             /\ ctorErr' = "OSError"
             /\ UNCHANGED <<fileExists, fileData, nPersist, nStatusReads>>
     /\ PersistOnlyAfterConvergence]_vars

\* C15 witness: a status read failed during the second iteration and the
\* construction ended with the error, nothing persisted.
C15_Witness ==
  /\ pc = "failed"
  /\ calPath = "earn"
  /\ ctorErr = "OSError"
  /\ nStatusReads = 3
  /\ nPersist = 0

====
